---- MODULE Spec2Model ----
(***************************************************************************)
(* Survey sessions of the ratings web application: the relational tables   *)
(* of backend/src/db/mod.rs and the request handlers of                    *)
(* backend/src/handlers/tests.rs and backend/src/handlers/user.rs.         *)
(*                                                                         *)
(* Every handler is a sequence of SQL statements separated by .await; the  *)
(* store executes one statement atomically, so a handler is modelled as    *)
(* one action per statement (the statement, the Rust code up to the next   *)
(* statement, and the activity-log write that follows it).  Handlers run   *)
(* concurrently in the request slots Procs.                                *)
(*                                                                         *)
(* Option<T> is a sequence of length at most one: None is << >>, Some(x)   *)
(* is <<x>>.  Stars are counted in thousandths of a star (3.5 is 3500).   *)
(* Timestamps are readings of the clock "now" (datetime('now')).           *)
(***************************************************************************)
EXTENDS Integers, Sequences, FiniteSets, Bags, TLC

\* ---------------------------------------------------------------- bounds
MaxLogs == 3
MaxTests == 2
MaxUsers == 2
MaxClock == 2
MaxCategories == 2
MaxMedia == 4

Procs == {1, 2}
TestIds == 1..MaxTests
UserIds == 1..MaxUsers
Tokens == 1..MaxUsers
Emails == {"a@x.com", "b@x.com"}
Alice == [sub |-> "alice", is_super_admin |-> FALSE]
Bob == [sub |-> "bob", is_super_admin |-> FALSE]
Root == [sub |-> "root", is_super_admin |-> TRUE]
Creators == {Alice}
Deleters == {Alice, Bob, Root}
CategoryInputs == {1}
\* category ids of requests that may name a category that does not exist
CategoryIds == 1..MaxCategories
CategoryNames == {"Rock", "Art"}
MediaTypeInputs == {"audio", "image", "font"}
\* the value of a category_ids field: comma-separated ids, parsed
CategoryIdLists == {<< >>, <<1>>, <<2>>, <<1, 2>>}
\* Content-Type of a file part
AudioMpeg == [type |-> "audio", subtype |-> "mpeg"]
ImagePng == [type |-> "image", subtype |-> "png"]
OctetStream == [type |-> "application", subtype |-> "octet-stream"]
\* the file parts of a multipart body
FileLists == {<< >>, <<AudioMpeg>>, <<ImagePng>>, <<OctetStream>>,
              <<AudioMpeg, ImagePng>>, <<ImagePng, AudioMpeg>>}
MediaInputs == {1, 2}
RatingInputs == {[stars |-> 3000, comment |-> << >>],
                 [stars |-> 5000, comment |-> <<"nice">>],
                 [stars |-> 3300, comment |-> << >>]}
\* stars of a request body, in thousandths: 3.5, 4.5, 0, 5, 3.3, 5.5, -0.5, 7
\* and, around the tolerance, 3.505, 3.51, 1.01
StarsInputs ==
    {[stars |-> s, comment |-> << >>] :
        s \in {3500, 4500, 0, 5000, 3300, 5500, -500, 7000, 3505, 3510, 1010}}

None == << >>
Some(x) == <<x>>

\* HTTP status codes (axum::http::StatusCode)
OK == 200
CREATED == 201
NO_CONTENT == 204
BAD_REQUEST == 400
UNAUTHORIZED == 401
FORBIDDEN == 403
NOT_FOUND == 404
CONFLICT == 409
GONE == 410
INTERNAL_SERVER_ERROR == 500

VARIABLES
    tests,                  \* table tests: id -> [status, created_by]
    next_test_id,           \* AUTOINCREMENT of tests
    test_categories,        \* table test_categories: {<<test_id, category_id>>}
    test_users,             \* table test_users: set of rows
    next_user_id,           \* AUTOINCREMENT of test_users
    ratings,                \* table ratings: set of rows
    next_rating_id,         \* AUTOINCREMENT of ratings
    categories,             \* table categories: id -> [name, media_type]
    next_category_id,       \* AUTOINCREMENT of categories
    media_files,            \* table media_files: id -> [media_type, uploaded_at]
    next_media_id,          \* AUTOINCREMENT of media_files
    media_file_categories,  \* table media_file_categories: {<<media_file_id, category_id>>}
    activity_logs,          \* table activity_logs: bag of entries
    now,                    \* datetime('now')
    email_tasks,            \* the tasks add_test_user has spawned: set of tasks
    log_failing,            \* the store rejects INSERT INTO activity_logs
    minted,                 \* history: every [token, user_id] ever inserted
    pc,                     \* per request slot: the statement the handler is at
    req,                    \* per request slot: the handler's inputs and locals
    last                    \* the response the latest step sent, with its request

vars == <<tests, next_test_id, test_categories, test_users, next_user_id,
          ratings, next_rating_id, categories, next_category_id, media_files,
          next_media_id, media_file_categories, activity_logs, now,
          email_tasks, log_failing, minted, pc, req, last>>

db_tests == <<tests, next_test_id, test_categories>>
db_users == <<test_users, next_user_id>>
db_ratings == <<ratings, next_rating_id>>
db_media == <<categories, next_category_id, media_files, next_media_id,
              media_file_categories>>
\* what lies outside the tables: the spawned tasks, the fault of the log and
\* the history of the tokens
env == <<email_tasks, log_failing, minted>>

\* ------------------------------------------------------ locals, responses
NoReq ==
    [op |-> "none", token |-> 0, test_id |-> 0, user_id |-> 0, email |-> "",
     media_file_id |-> 0, stars |-> 0, comment |-> None, category_id |-> 0,
     claims |-> [sub |-> "", is_super_admin |-> FALSE],
     category_ids |-> << >>, files |-> << >>, file |-> 0, cat |-> 0,
     uploaded_file_ids |-> << >>,
     limit |-> 0, offset |-> 0, action |-> << >>, total |-> 0, g_removed |-> {},
     g_known |-> FALSE, g_accessed |-> FALSE, g_completed |-> FALSE,
     g_closed |-> FALSE]

\* of the request, a response keeps what identifies it and what it observed
Answered(l) ==
    [op |-> l.op, token |-> l.token, test_id |-> l.test_id, user_id |-> l.user_id,
     email |-> l.email, claims |-> l.claims, stars |-> l.stars, category_ids |-> l.category_ids,
     files |-> l.files, file |-> l.file, uploaded_file_ids |-> l.uploaded_file_ids,
     g_known |-> l.g_known, g_accessed |-> l.g_accessed,
     g_completed |-> l.g_completed, g_closed |-> l.g_closed]

NoResp == [status |-> 0, req |-> Answered(NoReq), media_files |-> << >>,
           aggregated |-> << >>, logs |-> EmptyBag, total |-> 0, limit |-> 0,
           offset |-> 0]

Status(code) == [NoResp EXCEPT !.status = code]

\* ------------------------------------------------------------ the store
UserByToken(token) == {u \in test_users : u.one_time_token = token}
UserById(id) == {u \in test_users : u.id = id}
RatingsOf(user_id, media_file_id) ==
    {r \in ratings : r.test_user_id = user_id /\ r.media_file_id = media_file_id}

RatingIdOf(rows, user_id, media_file_id) ==
    LET r == CHOOSE r \in rows :
                 r.test_user_id = user_id /\ r.media_file_id = media_file_id
    IN  r.id

\* log_activity: INSERT INTO activity_logs.  An entry keeps the actor (admin
\* username or participant email), the action, the entity and, of the details,
\* the test_user_id of access_test and complete_test and the stars of
\* submit_rating (ref).
LogEntry(actor, action, entity_type, entity_id, ref) ==
    [actor |-> actor, action |-> action, entity_type |-> entity_type,
     entity_id |-> entity_id, ref |-> ref]

\* The store starts to reject the INSERT of log_activity (its
\* execute(pool).await? returns Err), and goes on rejecting it.
LogFault ==
    /\ ~log_failing
    /\ log_failing' = TRUE
    /\ UNCHANGED <<db_tests, db_users, db_ratings, db_media, activity_logs, now,
                   email_tasks, minted, pc, req, last>>

\* .execute(pool).await? of log_activity: the entry is written unless the
\* store rejects the INSERT
log_activity(logs, entry) ==
    IF log_failing THEN logs ELSE logs (+) SetToBag({entry})

\* mutant of LoggedOk: log_activity(..).await? in place of .await.ok()
LoggedOrFailed(r) ==
    IF log_failing THEN [r EXCEPT !.status = INTERNAL_SERVER_ERROR] ELSE r

\* log_activity(..).await.ok(): the Result of the log write is dropped, the
\* handler goes on to its response r
LoggedOk(r) == r

\* The store as run_migrations leaves it for an installation that predates the
\* activity_logs table and the created_by column: one category with two media
\* files and one open test on it, whose created_by is NULL; no participants,
\* no ratings, no log entries.
InitStore ==
    /\ tests = (1 :> [status |-> "open", created_by |-> None])
    /\ next_test_id = 2
    /\ test_categories = {<<1, 1>>}
    /\ test_users = {}
    /\ next_user_id = 1
    /\ ratings = {}
    /\ next_rating_id = 1
    /\ categories = (1 :> [name |-> "Rock", media_type |-> "audio"])
    /\ next_category_id = 2
    /\ media_files = (1 :> [media_type |-> "audio", uploaded_at |-> 0]) @@
                     (2 :> [media_type |-> "audio", uploaded_at |-> 1])
    /\ next_media_id = 3
    /\ media_file_categories = {<<1, 1>>, <<2, 1>>}
    /\ now = 1
    /\ email_tasks = {}
    /\ log_failing = FALSE
    /\ minted = {}
    /\ pc = [p \in Procs |-> "idle"]
    /\ req = [p \in Procs |-> NoReq]
    /\ last = NoResp

Init == InitStore /\ activity_logs = EmptyBag

\* A request arrives at slot p: the slot is free and the lower slots are busy.
Arrive(p) ==
    /\ pc[p] = "idle"
    /\ \A q \in Procs : q < p => pc[q] # "idle"

\* the statements after which the handler still writes an activity-log entry
Logging ==
    {"create_test_link", "create_test_select", "add_test_user_insert", "add_test_user_select",
     "close_test_update",
     "get_test_stamp", "complete_test_update", "submit_rating_check",
     "submit_rating_upsert", "delete_test_delete", "delete_test_user_select",
     "delete_test_user_delete", "delete_category_delete",
     "upload_media_verify", "upload_media_insert", "upload_media_associate",
     "update_media_categories_delete", "update_media_categories_verify",
     "update_media_categories_insert"}

\* activity_logs has room for one more entry besides those of the handlers
\* that are on their way to write one; once the log is failing, the handlers
\* that are on their way go on and no further one sets out
Room ==
    /\ BagCardinality(activity_logs) + Cardinality({q \in Procs : pc[q] \in Logging})
           < MaxLogs
    /\ ~log_failing

\* A request whose handler ends in an activity-log entry is admitted while
\* activity_logs has room for it; the handlers that read (get_test_by_token,
\* get_test_results) are admitted always.
Admit(p) == Arrive(p) /\ Room

\* the handler at slot p returns response r to the request locals
Return(p, locals, r) ==
    /\ pc' = [pc EXCEPT ![p] = "idle"]
    /\ req' = [req EXCEPT ![p] = NoReq]
    /\ last' = [r EXCEPT !.req = Answered(locals)]

\* the handler at slot p goes on to its next statement
Goto(p, label, locals) ==
    /\ label \in Logging /\ pc[p] \notin Logging => Room
    /\ pc' = [pc EXCEPT ![p] = label]
    /\ req' = [req EXCEPT ![p] = locals]
    /\ last' = NoResp

\* the clock advances
Tick ==
    /\ now < MaxClock
    /\ now' = now + 1
    /\ UNCHANGED <<db_tests, db_users, db_ratings, db_media, activity_logs,
                   env, pc, req, last>>

\* mutant of TestGate: the status of the test is not checked
TestGateIgnoringStatus(test_id, missing) ==
    IF test_id \notin DOMAIN tests THEN missing ELSE 0

\* SELECT * FROM tests WHERE id = ? and the check of its status: the status
\* code the handler returns (missing when there is no such test), 0 to go on
TestGate(test_id, missing) ==
    IF test_id \notin DOMAIN tests THEN missing
    ELSE IF tests[test_id].status = "closed" THEN FORBIDDEN
    ELSE 0

\* ----------------------------------------------------------- create_test
\* INSERT INTO tests (...) VALUES (...): status defaults to 'open'
CreateTestInsertOf(p, category_ids) ==
    \E claims \in Creators, category_id \in category_ids :
        /\ Admit(p)
        /\ next_test_id <= MaxTests
        /\ tests' = tests @@ (next_test_id :>
                        [status |-> "open", created_by |-> Some(claims.sub)])
        /\ next_test_id' = next_test_id + 1
        /\ Goto(p, "create_test_link",
                [NoReq EXCEPT !.op = "create_test", !.claims = claims,
                              !.category_id = category_id,
                              !.test_id = next_test_id])
        /\ UNCHANGED <<test_categories, db_users, db_ratings, db_media,
                       activity_logs, now, env>>

CreateTestInsert(p) == CreateTestInsertOf(p, CategoryInputs)

\* INSERT INTO test_categories; a foreign key that matches no row fails the
\* statement and the handler answers 500
CreateTestLink(p) ==
    /\ pc[p] = "create_test_link"
    /\ LET l == req[p]
           fk_ok == l.test_id \in DOMAIN tests /\ l.category_id \in DOMAIN categories
       IN  IF fk_ok
           THEN /\ test_categories' = test_categories \cup {<<l.test_id, l.category_id>>}
                /\ Goto(p, "create_test_select", l)
           ELSE /\ UNCHANGED test_categories
                /\ Return(p, l, Status(INTERNAL_SERVER_ERROR))
    /\ UNCHANGED <<tests, next_test_id, db_users, db_ratings, db_media,
                   activity_logs, now, env>>

\* SELECT * FROM tests WHERE id = ? (fetch_one: no row is an error), the
\* activity-log entry and the response
CreateTestSelect(p) ==
    /\ pc[p] = "create_test_select"
    /\ LET l == req[p]
       IN  IF l.test_id \in DOMAIN tests
           THEN /\ activity_logs' = log_activity(activity_logs,
                       LogEntry(l.claims.sub, "create_test", "test", l.test_id, 0))
                /\ Return(p, l, LoggedOk(Status(OK)))
           ELSE /\ UNCHANGED activity_logs
                /\ Return(p, l, Status(INTERNAL_SERVER_ERROR))
    /\ UNCHANGED <<db_tests, db_users, db_ratings, db_media, now, env>>

\* --------------------------------------------------------- add_test_user
\* SELECT * FROM test_users WHERE test_id = ? AND email = ?
AddTestUserCheck(p) ==
    \E claims \in Creators, test_id \in TestIds, email \in Emails :
        /\ Admit(p)
        /\ next_user_id + Cardinality({q \in Procs : pc[q] = "add_test_user_insert"})
               <= MaxUsers
        /\ LET l == [NoReq EXCEPT !.op = "add_test_user", !.claims = claims,
                                   !.test_id = test_id, !.email = email]
               existing_user == {u \in test_users : u.test_id = test_id /\ u.email = email}
           IN  IF existing_user # {}
               THEN Return(p, l, Status(CONFLICT))
               ELSE Goto(p, "add_test_user_insert", l)
        /\ UNCHANGED <<db_tests, db_users, db_ratings, db_media, activity_logs, now, env>>

\* mutant of generate_one_time_token: the token is derived from the test
TokenOfTest == req[CHOOSE p \in Procs : pc[p] = "add_test_user_insert"].test_id

\* generate_one_time_token: a version-4 UUID, modelled as a value never drawn before
generate_one_time_token == next_user_id

\* INSERT INTO test_users (test_id, email, one_time_token): accessed_at and
\* completed_at default to NULL
InsertTestUser(rows, id, test_id, email, token) ==
    rows \cup {[id |-> id, test_id |-> test_id, email |-> email,
                one_time_token |-> token, accessed_at |-> None,
                completed_at |-> None]}

\* the INSERT: the test_id foreign key must match a test and one_time_token is
\* UNIQUE, or the statement fails and the handler answers 500
AddTestUserInsert(p) ==
    /\ pc[p] = "add_test_user_insert"
    /\ LET l == req[p]
           token == generate_one_time_token
       IN  IF l.test_id \in DOMAIN tests /\ UserByToken(token) = {}
           THEN /\ test_users' = InsertTestUser(test_users, next_user_id, l.test_id,
                                                l.email, token)
                /\ next_user_id' = next_user_id + 1
                /\ minted' = minted \cup {[token |-> token, user_id |-> next_user_id]}
                /\ Goto(p, "add_test_user_select",
                        [l EXCEPT !.user_id = next_user_id, !.token = token])
           ELSE /\ UNCHANGED <<db_users, minted>>
                /\ Return(p, l, Status(INTERNAL_SERVER_ERROR))
    /\ UNCHANGED <<db_tests, db_ratings, db_media, activity_logs, now,
                   email_tasks, log_failing>>

\* tokio::spawn(async move { send_test_invitation_email(..).await }): the task
\* holds the address and the link, which ends in the token; no JoinHandle is kept
Spawn(tasks, user_id, email, link) ==
    tasks \cup {[user_id |-> user_id, email |-> email, link |-> link,
                 state |-> "running"]}

\* SELECT * FROM tests WHERE id = ?; if the test is there the invitation task
\* is spawned; then the activity-log entry and the response {email, link}
AddTestUserSelect(p) ==
    /\ pc[p] = "add_test_user_select"
    /\ LET l == req[p]
       IN  /\ email_tasks' = IF l.test_id \in DOMAIN tests
                             THEN Spawn(email_tasks, l.user_id, l.email, l.token)
                             ELSE email_tasks
           /\ activity_logs' = log_activity(activity_logs,
                  LogEntry(l.claims.sub, "add_test_user", "test_user", l.user_id, 0))
           /\ Return(p, l, LoggedOk(Status(OK)))
    /\ UNCHANGED <<db_tests, db_users, db_ratings, db_media, now, log_failing,
                   minted>>

\* mutant of EmailTaskEnds: a send that fails takes the invitation back
EmailTaskEndsRevoking ==
    \E task \in email_tasks, outcome \in {"sent", "failed"} :
        /\ task.state = "running"
        /\ email_tasks' = (email_tasks \ {task})
                              \cup {[task EXCEPT !.state = outcome]}
        /\ test_users' = IF outcome = "failed"
                         THEN {u \in test_users : u.id # task.user_id}
                         ELSE test_users
        /\ UNCHANGED <<db_tests, next_user_id, db_ratings, db_media, activity_logs,
                       now, log_failing, minted, pc, req, last>>

\* the spawned task ends: Ok(_) => tracing::info!, Err(e) => tracing::error!
EmailTaskEnds ==
    \E task \in email_tasks, outcome \in {"sent", "failed"} :
        /\ task.state = "running"
        /\ email_tasks' = (email_tasks \ {task})
                              \cup {[task EXCEPT !.state = outcome]}
        /\ UNCHANGED <<db_tests, db_users, db_ratings, db_media, activity_logs,
                       now, log_failing, minted, pc, req, last>>

\* ------------------------------------------------------------ close_test
\* SELECT name FROM tests WHERE id = ?
CloseTestLookup(p) ==
    \E claims \in Creators, test_id \in TestIds :
        /\ Admit(p)
        /\ LET l == [NoReq EXCEPT !.op = "close_test", !.claims = claims,
                                   !.test_id = test_id,
                                   !.g_closed = test_id \in DOMAIN tests
                                                    /\ tests[test_id].status = "closed"]
           IN  IF test_id \in DOMAIN tests
               THEN Goto(p, "close_test_update", l)
               ELSE Return(p, l, Status(NOT_FOUND))
        /\ UNCHANGED <<db_tests, db_users, db_ratings, db_media, activity_logs, now, env>>

\* mutant of UpdateStatusClosed: the UPDATE toggles the status
UpdateStatusToggled(rows, test_id) ==
    [t \in DOMAIN rows |->
        IF t = test_id
        THEN [rows[t] EXCEPT !.status = IF @ = "open" THEN "closed" ELSE "open"]
        ELSE rows[t]]

\* UPDATE tests SET status = 'closed' WHERE id = ?
UpdateStatusClosed(rows, test_id) ==
    [t \in DOMAIN rows |->
        IF t = test_id THEN [rows[t] EXCEPT !.status = "closed"] ELSE rows[t]]

CloseTestUpdate(p) ==
    /\ pc[p] = "close_test_update"
    /\ LET l == req[p]
       IN  IF l.test_id \in DOMAIN tests
           THEN /\ tests' = UpdateStatusClosed(tests, l.test_id)
                /\ activity_logs' = log_activity(activity_logs,
                       LogEntry(l.claims.sub, "close_test", "test", l.test_id, 0))
                /\ Return(p, l, LoggedOk(Status(OK)))
           ELSE /\ UNCHANGED <<tests, activity_logs>>
                /\ Return(p, l, Status(NOT_FOUND))
    /\ UNCHANGED <<next_test_id, test_categories, db_users, db_ratings, db_media,
                   now, env>>

\* ----------------------------------------------------- get_test_by_token
\* what the request finds when its first statement runs (history fields g_*)
Observe(l, user) ==
    [l EXCEPT !.g_known = TRUE,
              !.g_accessed = user.accessed_at # None,
              !.g_completed = user.completed_at # None,
              !.g_closed = user.test_id \in DOMAIN tests
                               /\ tests[user.test_id].status = "closed"]

\* mutant of CompletedGate: a completed session is let through
CompletedGateOpen(completed_at) == 0

\* if completed_at.is_some() { return Err(StatusCode::GONE) }
CompletedGate(completed_at) == IF completed_at # None THEN GONE ELSE 0

\* SELECT id, test_id, completed_at, email FROM test_users WHERE one_time_token = ?
GetTestLookup(p) ==
    \E token \in Tokens :
        /\ Arrive(p)
        /\ LET l == [NoReq EXCEPT !.op = "get_test_by_token", !.token = token]
               test_user == UserByToken(token)
           IN  IF test_user = {}
               THEN Return(p, l, Status(NOT_FOUND))
               ELSE LET u == CHOOSE u \in test_user : TRUE
                        lu == [Observe(l, u) EXCEPT !.user_id = u.id,
                                                    !.test_id = u.test_id,
                                                    !.email = u.email]
                    IN  IF CompletedGate(u.completed_at) # 0
                        THEN Return(p, lu, Status(CompletedGate(u.completed_at)))
                        ELSE Goto(p, "get_test_stamp", lu)
        /\ UNCHANGED <<db_tests, db_users, db_ratings, db_media, activity_logs, now, env>>

\* UPDATE test_users SET accessed_at = datetime('now')
\*   WHERE id = ? AND accessed_at IS NULL
\* mutant of StampAccessed: the UPDATE lacks AND accessed_at IS NULL
StampAccessedAlways(rows, id, t) ==
    LET hit == {u \in rows : u.id = id}
    IN  [rows_affected |-> Cardinality(hit),
         rows |-> (rows \ hit) \cup {[u EXCEPT !.accessed_at = Some(t)] : u \in hit}]

\* the rows the statement updates, and the table after it
StampAccessed(rows, id, t) ==
    LET hit == {u \in rows : u.id = id /\ u.accessed_at = None}
    IN  [rows_affected |-> Cardinality(hit),
         rows |-> (rows \ hit) \cup {[u EXCEPT !.accessed_at = Some(t)] : u \in hit}]

GetTestStamp(p) ==
    /\ pc[p] = "get_test_stamp"
    /\ LET l == req[p]
           result == StampAccessed(test_users, l.user_id, now)
       IN  /\ test_users' = result.rows
           /\ activity_logs' =
                  IF result.rows_affected > 0
                  THEN log_activity(activity_logs,
                           LogEntry(l.email, "access_test", "test", l.test_id, l.user_id))
                  ELSE activity_logs
           /\ Goto(p, "get_test_load", l)
    /\ UNCHANGED <<db_tests, next_user_id, db_ratings, db_media, now, env>>

\* SELECT DISTINCT mf.* FROM media_files mf
\*   INNER JOIN media_file_categories mfc ON mf.id = mfc.media_file_id
\*   INNER JOIN test_categories tc ON mfc.category_id = tc.category_id
\*   WHERE tc.test_id = ?
MediaOfTest(test_id) ==
    {m \in DOMAIN media_files :
        \E c \in DOMAIN categories :
            <<m, c>> \in media_file_categories /\ <<test_id, c>> \in test_categories}

\* ORDER BY mf.uploaded_at
OrderByUploadedAt(S) ==
    CHOOSE seq \in [1..Cardinality(S) -> S] :
        /\ \A i, j \in 1..Cardinality(S) : i # j => seq[i] # seq[j]
        /\ \A i, j \in 1..Cardinality(S) :
               i < j => media_files[seq[i]].uploaded_at <= media_files[seq[j]].uploaded_at

\* SELECT * FROM tests WHERE id = ?, then the media files of the test
GetTestLoad(p) ==
    /\ pc[p] = "get_test_load"
    /\ LET l == req[p]
       IN  IF TestGate(l.test_id, NOT_FOUND) # 0
           THEN Return(p, l, Status(TestGate(l.test_id, NOT_FOUND)))
           ELSE Return(p, l, [Status(OK) EXCEPT
                    !.media_files = OrderByUploadedAt(MediaOfTest(l.test_id))])
    /\ UNCHANGED <<db_tests, db_users, db_ratings, db_media, activity_logs, now, env>>

\* --------------------------------------------------------- complete_test
\* SELECT id, test_id, email FROM test_users WHERE one_time_token = ?
CompleteTestLookup(p) ==
    \E token \in Tokens :
        /\ Admit(p)
        /\ LET l == [NoReq EXCEPT !.op = "complete_test", !.token = token]
               test_user == UserByToken(token)
           IN  IF test_user = {}
               THEN Return(p, l, Status(NOT_FOUND))
               ELSE LET u == CHOOSE u \in test_user : TRUE
                    IN  Goto(p, "complete_test_update",
                             [Observe(l, u) EXCEPT !.user_id = u.id,
                                                   !.test_id = u.test_id,
                                                   !.email = u.email])
        /\ UNCHANGED <<db_tests, db_users, db_ratings, db_media, activity_logs, now, env>>

\* mutant of StampCompleted: the UPDATE clears a completed_at that is set
StampCompletedToggling(rows, token, t) ==
    {IF u.one_time_token = token
        THEN [u EXCEPT !.completed_at = IF @ = None THEN Some(t) ELSE None]
        ELSE u : u \in rows}

\* UPDATE test_users SET completed_at = datetime('now') WHERE one_time_token = ?
StampCompleted(rows, token, t) ==
    {IF u.one_time_token = token
        THEN [u EXCEPT !.completed_at = Some(t)] ELSE u : u \in rows}

CompleteTestUpdate(p) ==
    /\ pc[p] = "complete_test_update"
    /\ LET l == req[p]
       IN  IF UserByToken(l.token) = {}
           THEN /\ UNCHANGED <<test_users, activity_logs>>
                /\ Return(p, l, Status(NOT_FOUND))
           ELSE /\ test_users' = StampCompleted(test_users, l.token, now)
                /\ activity_logs' = log_activity(activity_logs,
                       LogEntry(l.email, "complete_test", "test", l.test_id, l.user_id))
                /\ Return(p, l, LoggedOk(Status(NO_CONTENT)))
    /\ UNCHANGED <<db_tests, next_user_id, db_ratings, db_media, now, env>>

\* --------------------------------------------------------- submit_rating
\* SELECT id, test_id, email FROM test_users WHERE one_time_token = ?
SubmitRatingLookup(p) ==
    \E token \in Tokens :
        /\ Admit(p)
        /\ LET l == [NoReq EXCEPT !.op = "submit_rating", !.token = token]
               test_user == UserByToken(token)
           IN  IF test_user = {}
               THEN Return(p, l, Status(UNAUTHORIZED))
               ELSE LET u == CHOOSE u \in test_user : TRUE
                    IN  Goto(p, "submit_rating_check",
                             [Observe(l, u) EXCEPT !.user_id = u.id,
                                                   !.test_id = u.test_id,
                                                   !.email = u.email])
        /\ UNCHANGED <<db_tests, db_users, db_ratings, db_media, activity_logs, now, env>>

\* f64::round of x / 1000 for an integer x: half away from zero
RoundThousandths(x) ==
    IF x >= 0 THEN (x + 500) \div 1000 ELSE -((500 - x) \div 1000)

Abs(x) == IF x < 0 THEN -x ELSE x

\* Json<RatingRequest> parses the decimal of the request body to the nearest
\* f64.  F64Error is that f64 minus the decimal stars/1000, in units of 1e-21
\* star, for the decimals that are drawn as inputs; a multiple of 0.5 is an
\* f64 itself.  An f64 is written [milli, err]: milli/1000 + err * 1e-21.
F64Error(stars) ==
    CASE stars = 10 -> 208
      [] stars = 1010 -> 8882
      [] stars = 3300 -> -177636
      [] stars = 3505 -> -106581
      [] stars = 3510 -> -213163
      [] stars % 500 = 0 -> 0

\* a > b for two f64; an err is far below a thousandth
F64Gt(a, b) == a.milli > b.milli \/ (a.milli = b.milli /\ a.err > b.err)

\* f64::abs
F64Abs(a) ==
    IF a.milli < 0 \/ (a.milli = 0 /\ a.err < 0)
    THEN [milli |-> -a.milli, err |-> -a.err] ELSE a

\* the literal 0.01 as f64
Tolerance == [milli |-> 10, err |-> F64Error(10)]

\* the two validations of payload.stars.  payload.stars * 2.0, its round()
\* and the division by 2.0 are exact, and so is the subtraction of two f64
\* this close: the difference is the half star minus the decimal minus the
\* error of the parse.
StarsValid(stars) ==
    /\ ~(stars < 0 \/ stars > 5000)
    /\ LET stars_doubled == RoundThousandths(stars * 2)
           difference == [milli |-> stars_doubled * 500 - stars,
                          err |-> -F64Error(stars)]
       IN  ~F64Gt(F64Abs(difference), Tolerance)

\* mutant of SubmitRatingCheckOf: the stars are validated before the status
SubmitRatingStarsFirst(p, payloads) ==
    /\ pc[p] = "submit_rating_check"
    /\ \E media_file_id \in MediaInputs, payload \in payloads :
       LET l == [req[p] EXCEPT !.media_file_id = media_file_id,
                                  !.stars = payload.stars,
                                  !.comment = payload.comment]
       IN  IF ~StarsValid(l.stars)
           THEN Return(p, l, Status(BAD_REQUEST))
           ELSE IF TestGate(l.test_id, INTERNAL_SERVER_ERROR) # 0
           THEN Return(p, l, Status(TestGate(l.test_id, INTERNAL_SERVER_ERROR)))
           ELSE Goto(p, "submit_rating_upsert", l)
    /\ UNCHANGED <<db_tests, db_users, db_ratings, db_media, activity_logs, now, env>>

\* SELECT * FROM tests WHERE id = ?, then the checks on status and stars.
\* The payload (media_file_id, stars, comment) is not read before this point,
\* so its value is drawn here.
SubmitRatingCheckOf(p, payloads) ==
    /\ pc[p] = "submit_rating_check"
    /\ \E media_file_id \in MediaInputs, payload \in payloads :
       LET l == [req[p] EXCEPT !.media_file_id = media_file_id,
                                  !.stars = payload.stars,
                                  !.comment = payload.comment]
       IN  IF TestGate(l.test_id, INTERNAL_SERVER_ERROR) # 0
           THEN Return(p, l, Status(TestGate(l.test_id, INTERNAL_SERVER_ERROR)))
           ELSE IF ~StarsValid(l.stars)
           THEN Return(p, l, Status(BAD_REQUEST))
           ELSE Goto(p, "submit_rating_upsert", l)
    /\ UNCHANGED <<db_tests, db_users, db_ratings, db_media, activity_logs, now, env>>

SubmitRatingCheck(p) == SubmitRatingCheckOf(p, RatingInputs)

\* mutant of Upsert: a plain INSERT into a table without the UNIQUE constraint
UpsertAlwaysInserting(rows, id, user_id, media_file_id, stars, comment, t) ==
    rows \cup {[id |-> id, test_user_id |-> user_id,
                media_file_id |-> media_file_id, stars |-> stars,
                comment |-> comment, rated_at |-> t]}

\* INSERT INTO ratings (test_user_id, media_file_id, stars, comment) VALUES (...)
\*   ON CONFLICT(test_user_id, media_file_id)
\*   DO UPDATE SET stars = excluded.stars, comment = excluded.comment,
\*                 rated_at = datetime('now')
Upsert(rows, id, user_id, media_file_id, stars, comment, t) ==
    IF \E r \in rows : r.test_user_id = user_id /\ r.media_file_id = media_file_id
    THEN {IF r.test_user_id = user_id /\ r.media_file_id = media_file_id
             THEN [r EXCEPT !.stars = stars, !.comment = comment, !.rated_at = t]
             ELSE r : r \in rows}
    ELSE rows \cup {[id |-> id, test_user_id |-> user_id,
                     media_file_id |-> media_file_id, stars |-> stars,
                     comment |-> comment, rated_at |-> t]}

\* the upsert (its foreign keys must match a test user and a media file), the
\* SELECT of the row and the activity-log entry
SubmitRatingUpsert(p) ==
    /\ pc[p] = "submit_rating_upsert"
    /\ LET l == req[p]
           fk_ok == UserById(l.user_id) # {} /\ l.media_file_id \in DOMAIN media_files
       IN  IF fk_ok
           THEN /\ ratings' = Upsert(ratings, next_rating_id, l.user_id,
                                     l.media_file_id, l.stars, l.comment, now)
                /\ next_rating_id' =
                       IF RatingsOf(l.user_id, l.media_file_id) = {}
                       THEN next_rating_id + 1 ELSE next_rating_id
                /\ activity_logs' = log_activity(activity_logs,
                       LogEntry(l.email, "submit_rating", "rating",
                                RatingIdOf(ratings', l.user_id, l.media_file_id),
                                l.stars))
                /\ Return(p, l, LoggedOk(Status(OK)))
           ELSE /\ UNCHANGED <<db_ratings, activity_logs>>
                /\ Return(p, l, Status(INTERNAL_SERVER_ERROR))
    /\ UNCHANGED <<db_tests, db_users, db_media, now, env>>

\* ----------------------------------------------------------- delete_test
\* mutant of is_authorized: a test without creator belongs to every admin
IsAuthorizedOnOrphans(claims, test) ==
    claims.is_super_admin \/ test.created_by = Some(claims.sub)
        \/ test.created_by = None

\* claims.is_super_admin || test.created_by.as_ref() == Some(&claims.sub)
is_authorized(claims, test) ==
    claims.is_super_admin \/ test.created_by = Some(claims.sub)

\* SELECT * FROM tests WHERE id = ?, then the ownership check
DeleteTestLookup(p) ==
    \E claims \in Deleters, test_id \in TestIds :
        /\ Admit(p)
        /\ LET l == [NoReq EXCEPT !.op = "delete_test", !.claims = claims,
                                  !.test_id = test_id]
           IN  IF test_id \notin DOMAIN tests
               THEN Return(p, l, Status(NOT_FOUND))
               ELSE LET test == tests[test_id]
                    IN  IF ~is_authorized(claims, test)
                        THEN Return(p, l, Status(FORBIDDEN))
                        ELSE Goto(p, "delete_test_delete", l)
        /\ UNCHANGED <<db_tests, db_users, db_ratings, db_media, activity_logs, now, env>>

\* mutant of CascadeRatings: the ratings of deleted test users stay
CascadeNothing(rows, users) == rows

\* ON DELETE CASCADE from test_users to ratings
CascadeRatings(rows, users) == {r \in rows : \E u \in users : u.id = r.test_user_id}

\* DELETE FROM tests WHERE id = ?, with ON DELETE CASCADE to test_categories,
\* test_users and ratings
DeleteTestDelete(p) ==
    /\ pc[p] = "delete_test_delete"
    /\ LET l == req[p]
           users == {u \in test_users : u.test_id # l.test_id}
       IN  IF l.test_id \notin DOMAIN tests
           THEN /\ UNCHANGED <<tests, test_categories, test_users, ratings, activity_logs>>
                /\ Return(p, l, Status(NOT_FOUND))
           ELSE /\ tests' = [t \in DOMAIN tests \ {l.test_id} |-> tests[t]]
                /\ test_categories' = {tc \in test_categories : tc[1] # l.test_id}
                /\ test_users' = users
                /\ ratings' = CascadeRatings(ratings, users)
                /\ activity_logs' = log_activity(activity_logs,
                       LogEntry(l.claims.sub, "delete_test", "test", l.test_id, 0))
                /\ Return(p, l, LoggedOk(Status(NO_CONTENT)))
    /\ UNCHANGED <<next_test_id, next_user_id, next_rating_id, db_media, now, env>>

\* ------------------------------------------------------ delete_test_user
\* SELECT status FROM tests WHERE id = ?
DeleteTestUserStatus(p) ==
    \E claims \in Creators, test_id \in TestIds, user_id \in UserIds :
        /\ Admit(p)
        /\ LET l0 == [NoReq EXCEPT !.op = "delete_test_user", !.claims = claims,
                                   !.test_id = test_id, !.user_id = user_id]
               l == [l0 EXCEPT !.g_closed = test_id \in DOMAIN tests
                                                /\ tests[test_id].status = "closed"]
           IN  IF TestGate(test_id, NOT_FOUND) # 0
               THEN Return(p, l, Status(TestGate(test_id, NOT_FOUND)))
               ELSE Goto(p, "delete_test_user_select", l)
        /\ UNCHANGED <<db_tests, db_users, db_ratings, db_media, activity_logs, now, env>>

\* SELECT email FROM test_users WHERE id = ? AND test_id = ?
DeleteTestUserSelect(p) ==
    /\ pc[p] = "delete_test_user_select"
    /\ LET l == req[p]
           user == {u \in test_users : u.id = l.user_id /\ u.test_id = l.test_id}
       IN  IF user = {}
           THEN Return(p, l, Status(NOT_FOUND))
           ELSE Goto(p, "delete_test_user_delete", l)
    /\ UNCHANGED <<db_tests, db_users, db_ratings, db_media, activity_logs, now, env>>

\* DELETE FROM test_users WHERE id = ? AND test_id = ?, with ON DELETE CASCADE
\* to ratings
DeleteTestUserDelete(p) ==
    /\ pc[p] = "delete_test_user_delete"
    /\ LET l == req[p]
           users == {u \in test_users : ~(u.id = l.user_id /\ u.test_id = l.test_id)}
       IN  IF users = test_users
           THEN /\ UNCHANGED <<test_users, ratings, activity_logs>>
                /\ Return(p, l, Status(NOT_FOUND))
           ELSE /\ test_users' = users
                /\ ratings' = CascadeRatings(ratings, users)
                /\ activity_logs' = log_activity(activity_logs,
                       LogEntry(l.claims.sub, "delete_test_user", "test_user",
                                l.user_id, 0))
                /\ Return(p, l, LoggedOk(Status(NO_CONTENT)))
    /\ UNCHANGED <<db_tests, next_user_id, next_rating_id, db_media, now, env>>

\* ------------------------------------------------------ get_test_results
\* SELECT * FROM tests WHERE id = ?
GetTestResultsLoad(p) ==
    \E test_id \in TestIds :
        /\ Arrive(p)
        /\ LET l == [NoReq EXCEPT !.op = "get_test_results", !.test_id = test_id]
           IN  IF test_id \notin DOMAIN tests
               THEN Return(p, l, Status(NOT_FOUND))
               ELSE Goto(p, "get_test_results_aggregate", l)
        /\ UNCHANGED <<db_tests, db_users, db_ratings, db_media, activity_logs, now, env>>

\* FROM media_files mf
\*   INNER JOIN media_file_categories mfc ON mf.id = mfc.media_file_id
\*   INNER JOIN test_categories tc ON mfc.category_id = tc.category_id
\*   LEFT JOIN ratings r ON r.media_file_id = mf.id
\*   LEFT JOIN test_users tu ON r.test_user_id = tu.id AND tu.test_id = ?
\*   WHERE tc.test_id = ?
\* A row of the join: r and tu are Some(row), or None where the LEFT JOIN found
\* no match.
Joined(test_id) ==
    LET inner == {mc \in media_file_categories :
                      /\ mc[1] \in DOMAIN media_files
                      /\ <<test_id, mc[2]>> \in test_categories}
        LeftRatings(mc) ==
            LET rs == {r \in ratings : r.media_file_id = mc[1]}
            IN  IF rs = {} THEN {None} ELSE {Some(r) : r \in rs}
        LeftUsers(r) ==
            LET us == IF r = None THEN {}
                      ELSE {u \in test_users :
                                r[1].test_user_id = u.id /\ u.test_id = test_id}
            IN  IF us = {} THEN {None} ELSE {Some(u) : u \in us}
    IN  UNION {UNION {{[mf |-> mc[1], category_id |-> mc[2], r |-> r, tu |-> tu] :
                          tu \in LeftUsers(r)} : r \in LeftRatings(mc)} : mc \in inner}

RECURSIVE SumStars(_)
SumStars(rows) ==
    IF rows = {} THEN 0
    ELSE LET x == CHOOSE x \in rows : TRUE
         IN  x.r[1].stars + SumStars(rows \ {x})

\* GROUP BY mf.id: COALESCE(AVG(r.stars), 0) and COUNT(r.id) of one group.
\* The average is the fraction num/den.
MediaFileStats(mf, group) ==
    LET rated == {x \in group : x.r # None}
        n == Cardinality(rated)
    IN  [media_file_id |-> mf,
         average_stars |-> IF n = 0 THEN [num |-> 0, den |-> 1]
                           ELSE [num |-> SumStars(rated), den |-> n],
         total_ratings |-> n]

Aggregated(test_id) ==
    LET rows == Joined(test_id)
    IN  {MediaFileStats(mf, {x \in rows : x.mf = mf}) : mf \in {x.mf : x \in rows}}

\* ORDER BY avg_stars DESC: every order of the entries that is descending in
\* the average (SQL leaves the order of equal averages open)
OrderByAvgDesc(entries) ==
    {seq \in [1..Cardinality(entries) -> entries] :
        /\ \A i, j \in 1..Cardinality(entries) : i # j => seq[i] # seq[j]
        /\ \A i, j \in 1..Cardinality(entries) :
               i < j => seq[i].average_stars.num * seq[j].average_stars.den
                            >= seq[j].average_stars.num * seq[i].average_stars.den}

\* the aggregated query (the list of individual ratings that follows it reads
\* the same tables and is not kept in the response here)
GetTestResultsAggregate(p) ==
    /\ pc[p] = "get_test_results_aggregate"
    /\ LET l == req[p]
       IN  \E aggregated \in OrderByAvgDesc(Aggregated(l.test_id)) :
               Return(p, l, [Status(OK) EXCEPT !.aggregated = aggregated])
    /\ UNCHANGED <<db_tests, db_users, db_ratings, db_media, activity_logs, now, env>>

\* ---------------------------------------------------- list_activity_logs
\* let limit = params.limit.min(200)
MaxPageSize == 200

\* fn default_limit() -> i64 { 50 }
default_limit == 50

\* the query parameters limit and offset (i64; limit absent is default_limit)
\* and the filter on action
LimitInputs == {<< >>, <<0>>, <<1>>, <<200>>, <<201>>, <<1000>>, <<-1>>, <<-5>>}
OffsetInputs == {0, 1, 250, -1}
ActionInputs == {<< >>, <<"login">>}

\* the numbers of close_test entries the activity log of an installation holds
LogSizes == {0, 1, 199, 200, 201, 250}

\* the entries of logs that pass the WHERE clause built from the parameters
Filtered(logs, action) ==
    LET es == {e \in BagToSet(logs) : action = None \/ e.action = action[1]}
    IN  [e \in es |-> logs[e]]

Min(a, b) == IF a < b THEN a ELSE b
Max(a, b) == IF a > b THEN a ELSE b

\* the number of rows of SELECT .. LIMIT ? OFFSET ? over n rows: in SQLite a
\* negative LIMIT is no limit and a negative OFFSET is 0
LimitOffset(n, limit, offset) ==
    LET rest == Max(n - Max(offset, 0), 0)
    IN  IF limit < 0 THEN rest ELSE Min(limit, rest)

\* the first k entries of a bag of entries (the entries of the log of this
\* model carry no timestamp: ORDER BY timestamp DESC picks any k of them)
RECURSIVE Take(_, _)
Take(logs, k) ==
    IF k <= 0 \/ BagToSet(logs) = {} THEN EmptyBag
    ELSE LET e == CHOOSE e \in BagToSet(logs) : TRUE
             m == Min(k, logs[e])
             rest == [x \in BagToSet(logs) \ {e} |-> logs[x]]
         IN  (e :> m) @@ Take(rest, k - m)

\* SELECT COUNT(*) FROM activity_logs WHERE ..
ListActivityLogsCount(p) ==
    \E limit \in LimitInputs, offset \in OffsetInputs, action \in ActionInputs :
        /\ Arrive(p)
        /\ Goto(p, "list_activity_logs_select",
                [NoReq EXCEPT !.op = "list_activity_logs",
                              !.limit = IF limit = None THEN default_limit
                                        ELSE limit[1],
                              !.offset = offset, !.action = action,
                              !.total = BagCardinality(Filtered(activity_logs, action))])
        /\ UNCHANGED <<db_tests, db_users, db_ratings, db_media, activity_logs, now, env>>

\* SELECT * FROM activity_logs WHERE .. ORDER BY timestamp DESC LIMIT ? OFFSET ?
\* with limit = params.limit.min(200), and the response
ListActivityLogsSelect(p) ==
    /\ pc[p] = "list_activity_logs_select"
    /\ LET l == req[p]
           limit == Min(l.limit, MaxPageSize)
           rows == Filtered(activity_logs, l.action)
           logs == Take(rows, LimitOffset(BagCardinality(rows), limit, l.offset))
       IN  Return(p, l, [Status(OK) EXCEPT !.logs = logs, !.total = l.total,
                                           !.limit = limit, !.offset = l.offset])
    /\ UNCHANGED <<db_tests, db_users, db_ratings, db_media, activity_logs, now, env>>

\* ------------------------------------------------------- create_category
\* the validation of media_type and INSERT INTO categories (name, media_type);
\* name is UNIQUE
CreateCategory(p) ==
    \E claims \in Creators, name \in CategoryNames, media_type \in MediaTypeInputs :
        /\ Admit(p)
        /\ next_category_id <= MaxCategories
        /\ LET l == [NoReq EXCEPT !.op = "create_category", !.claims = claims]
               valid_types == {"audio", "video", "image", "text"}
           IN  IF media_type \notin valid_types
               THEN /\ UNCHANGED <<categories, next_category_id, activity_logs>>
                    /\ Return(p, l, Status(BAD_REQUEST))
               ELSE IF \E c \in DOMAIN categories : categories[c].name = name
               THEN /\ UNCHANGED <<categories, next_category_id, activity_logs>>
                    /\ Return(p, l, Status(CONFLICT))
               ELSE /\ categories' = [c \in DOMAIN categories \cup {next_category_id} |->
                                         IF c = next_category_id
                                         THEN [name |-> name, media_type |-> media_type]
                                         ELSE categories[c]]
                    /\ next_category_id' = next_category_id + 1
                    /\ activity_logs' = log_activity(activity_logs,
                           LogEntry(claims.sub, "create_category", "category",
                                    next_category_id, 0))
                    /\ Return(p, [l EXCEPT !.category_id = next_category_id],
                              LoggedOk(Status(CREATED)))
        /\ UNCHANGED <<db_tests, db_users, db_ratings, media_files, next_media_id,
                       media_file_categories, now, env>>

\* ------------------------------------------------------- delete_category
\* SELECT name, media_type FROM categories WHERE id = ?
DeleteCategoryLookup(p) ==
    \E claims \in Creators, id \in CategoryIds :
        /\ Admit(p)
        /\ LET l == [NoReq EXCEPT !.op = "delete_category", !.claims = claims,
                                  !.category_id = id]
           IN  IF id \in DOMAIN categories
               THEN Goto(p, "delete_category_delete", l)
               ELSE Return(p, l, Status(NOT_FOUND))
        /\ UNCHANGED <<db_tests, db_users, db_ratings, db_media, activity_logs, now, env>>

\* DELETE FROM categories WHERE id = ?, with ON DELETE CASCADE to
\* media_file_categories and test_categories
DeleteCategoryDelete(p) ==
    /\ pc[p] = "delete_category_delete"
    /\ LET l == req[p]
       IN  IF l.category_id \notin DOMAIN categories
           THEN /\ UNCHANGED <<categories, media_file_categories, test_categories,
                               activity_logs>>
                /\ Return(p, l, Status(NOT_FOUND))
           ELSE /\ categories' = [c \in DOMAIN categories \ {l.category_id} |->
                                     categories[c]]
                /\ media_file_categories' =
                       {mc \in media_file_categories : mc[2] # l.category_id}
                /\ test_categories' = {tc \in test_categories : tc[2] # l.category_id}
                /\ activity_logs' = log_activity(activity_logs,
                       LogEntry(l.claims.sub, "delete_category", "category",
                                l.category_id, 0))
                /\ Return(p, l, LoggedOk(Status(NO_CONTENT)))
    /\ UNCHANGED <<tests, next_test_id, db_users, db_ratings, next_category_id,
                   media_files, next_media_id, now, env>>

\* ---------------------------------------------------------- upload_media
determine_media_type(mime_type) ==
    IF mime_type.type = "audio" THEN "audio"
    ELSE IF mime_type.type = "video" THEN "video"
    ELSE IF mime_type.type = "image" THEN "image"
    ELSE IF mime_type.type = "text" THEN "text"
    ELSE "other"

\* the file parts that upload_media requests in flight have not inserted yet
RECURSIVE PendingFiles(_)
PendingFiles(S) ==
    IF S = {} THEN 0
    ELSE LET q == CHOOSE q \in S : TRUE
         IN  (Len(req[q].files) - Len(req[q].uploaded_file_ids))
                 + PendingFiles(S \ {q})

\* The multipart body is read field by field: the category_ids field, then the
\* file fields.  The step reads up to the first statement on the store.
UploadMediaFields(p) ==
    \E claims \in Creators, category_ids \in CategoryIdLists, files \in FileLists :
        /\ Admit(p)
        /\ next_media_id + Len(files) + PendingFiles({q \in Procs : pc[q] # "idle"})
               <= MaxMedia + 1
        /\ LET l == [NoReq EXCEPT !.op = "upload_media", !.claims = claims,
                                  !.category_ids = category_ids, !.files = files]
           IN  IF category_ids = << >>
               THEN Return(p, l, Status(BAD_REQUEST))
               ELSE IF files = << >>
               THEN Return(p, l, Status(BAD_REQUEST))
               ELSE Goto(p, "upload_media_verify", [l EXCEPT !.file = 1, !.cat = 1])
        /\ UNCHANGED <<db_tests, db_users, db_ratings, db_media, activity_logs, now, env>>

\* mutant of MediaTypeMatches: every file fits every category
MediaTypeMatchesAny(file_media_type, category_media_type) == TRUE

\* if file_media_type != category_media_type { return Err(BadRequest) }
MediaTypeMatches(file_media_type, category_media_type) ==
    file_media_type = category_media_type

\* one turn of "for cat_id in &category_ids":
\* SELECT media_type FROM categories WHERE id = ?, and the comparison with the
\* media type of the file
UploadMediaVerify(p) ==
    /\ pc[p] = "upload_media_verify"
    /\ LET l == req[p]
           cat_id == l.category_ids[l.cat]
           content_type == l.files[l.file]
       IN  IF cat_id \notin DOMAIN categories
           THEN Return(p, l, Status(BAD_REQUEST))
           ELSE IF ~MediaTypeMatches(determine_media_type(content_type),
                                     categories[cat_id].media_type)
           THEN Return(p, l, Status(BAD_REQUEST))
           ELSE IF l.cat < Len(l.category_ids)
           THEN Goto(p, "upload_media_verify", [l EXCEPT !.cat = @ + 1])
           ELSE Goto(p, "upload_media_insert", l)
    /\ UNCHANGED <<db_tests, db_users, db_ratings, db_media, activity_logs, now, env>>

\* INSERT INTO media_files (filename, file_path, media_type, mime_type)
UploadMediaInsert(p) ==
    /\ pc[p] = "upload_media_insert"
    /\ LET l == req[p]
           file_media_type == determine_media_type(l.files[l.file])
       IN  /\ media_files' =
                  [m \in DOMAIN media_files \cup {next_media_id} |->
                      IF m = next_media_id
                      THEN [media_type |-> file_media_type, uploaded_at |-> now]
                      ELSE media_files[m]]
           /\ next_media_id' = next_media_id + 1
           /\ Goto(p, "upload_media_associate",
                   [l EXCEPT !.media_file_id = next_media_id, !.cat = 1])
    /\ UNCHANGED <<db_tests, db_users, db_ratings, categories, next_category_id,
                   media_file_categories, activity_logs, now, env>>

\* one turn of the second "for cat_id in &category_ids":
\* INSERT INTO media_file_categories (media_file_id, category_id); the primary
\* key and the two foreign keys can fail it.  After the last one the next
\* file part is read, or the request ends with its activity-log entry.
UploadMediaAssociate(p) ==
    /\ pc[p] = "upload_media_associate"
    /\ LET l == req[p]
           cat_id == l.category_ids[l.cat]
           row == <<l.media_file_id, cat_id>>
           done == [l EXCEPT !.uploaded_file_ids = Append(@, l.media_file_id)]
       IN  IF \/ row \in media_file_categories
              \/ cat_id \notin DOMAIN categories
              \/ l.media_file_id \notin DOMAIN media_files
           THEN /\ UNCHANGED <<media_file_categories, activity_logs>>
                /\ Return(p, l, Status(INTERNAL_SERVER_ERROR))
           ELSE /\ media_file_categories' = media_file_categories \cup {row}
                /\ IF l.cat < Len(l.category_ids)
                   THEN /\ Goto(p, "upload_media_associate", [l EXCEPT !.cat = @ + 1])
                        /\ UNCHANGED activity_logs
                   ELSE IF l.file < Len(l.files)
                   THEN /\ Goto(p, "upload_media_verify",
                                [done EXCEPT !.file = @ + 1, !.cat = 1])
                        /\ UNCHANGED activity_logs
                   ELSE /\ activity_logs' = log_activity(activity_logs,
                               LogEntry(l.claims.sub, "upload_media", "media", 0,
                                        Len(done.uploaded_file_ids)))
                        /\ Return(p, done, LoggedOk(Status(CREATED)))
    /\ UNCHANGED <<db_tests, db_users, db_ratings, categories, next_category_id,
                   media_files, next_media_id, now, env>>

\* ----------------------------------------------- update_media_categories
\* the media file ids of the path /api/admin/media/:id/categories
MediaIdInputs == {1, 3}

\* SELECT * FROM media_files WHERE id = ?
UpdateMediaCategoriesLookup(p) ==
    \E claims \in Creators, id \in MediaIdInputs, category_ids \in CategoryIdLists :
        /\ Admit(p)
        /\ LET l == [NoReq EXCEPT !.op = "update_media_categories",
                                  !.claims = claims, !.media_file_id = id,
                                  !.category_ids = category_ids]
           IN  IF id \notin DOMAIN media_files
               THEN Return(p, l, Status(NOT_FOUND))
               ELSE Goto(p, "update_media_categories_delete", l)
        /\ UNCHANGED <<db_tests, db_users, db_ratings, db_media, activity_logs, now, env>>

\* the end of the handler: the activity-log entry and 204
UpdateMediaCategoriesDone(p, l) ==
    /\ activity_logs' = log_activity(activity_logs,
           LogEntry(l.claims.sub, "update_media_categories", "media",
                    l.media_file_id, 0))
    /\ Return(p, l, LoggedOk(Status(NO_CONTENT)))

\* DELETE FROM media_file_categories WHERE media_file_id = ? (history field
\* g_removed: the rows the statement deleted)
UpdateMediaCategoriesDelete(p) ==
    /\ pc[p] = "update_media_categories_delete"
    /\ LET l == [req[p] EXCEPT !.g_removed =
                     {mc \in media_file_categories : mc[1] = req[p].media_file_id}]
       IN  /\ media_file_categories' =
                  {mc \in media_file_categories : mc[1] # l.media_file_id}
           /\ IF l.category_ids = << >>
              THEN UpdateMediaCategoriesDone(p, l)
              ELSE /\ Goto(p, "update_media_categories_verify", [l EXCEPT !.cat = 1])
                   /\ UNCHANGED activity_logs
    /\ UNCHANGED <<db_tests, db_users, db_ratings, categories, next_category_id,
                   media_files, next_media_id, now, env>>

\* one turn of "for cat_id in &payload.category_ids", first statement:
\* SELECT COUNT(*) > 0 FROM categories WHERE id = ?
UpdateMediaCategoriesVerify(p) ==
    /\ pc[p] = "update_media_categories_verify"
    /\ LET l == req[p]
           category_exists == l.category_ids[l.cat] \in DOMAIN categories
       IN  IF ~category_exists
           THEN Return(p, l, Status(BAD_REQUEST))
           ELSE Goto(p, "update_media_categories_insert", l)
    /\ UNCHANGED <<db_tests, db_users, db_ratings, db_media, activity_logs, now, env>>

\* second statement of the turn:
\* INSERT INTO media_file_categories (media_file_id, category_id); the primary
\* key and the two foreign keys can fail it
UpdateMediaCategoriesInsert(p) ==
    /\ pc[p] = "update_media_categories_insert"
    /\ LET l == req[p]
           cat_id == l.category_ids[l.cat]
           row == <<l.media_file_id, cat_id>>
       IN  IF \/ row \in media_file_categories
              \/ cat_id \notin DOMAIN categories
              \/ l.media_file_id \notin DOMAIN media_files
           THEN /\ UNCHANGED <<media_file_categories, activity_logs>>
                /\ Return(p, l, Status(INTERNAL_SERVER_ERROR))
           ELSE /\ media_file_categories' = media_file_categories \cup {row}
                /\ IF l.cat < Len(l.category_ids)
                   THEN /\ Goto(p, "update_media_categories_verify",
                                [l EXCEPT !.cat = @ + 1])
                        /\ UNCHANGED activity_logs
                   ELSE UpdateMediaCategoriesDone(p, l)
    /\ UNCHANGED <<db_tests, db_users, db_ratings, categories, next_category_id,
                   media_files, next_media_id, now, env>>

Next ==
    \/ \E p \in Procs : CreateTestInsert(p)
    \/ \E p \in Procs : CreateTestLink(p)
    \/ \E p \in Procs : CreateTestSelect(p)
    \/ \E p \in Procs : AddTestUserCheck(p)
    \/ \E p \in Procs : AddTestUserInsert(p)
    \/ \E p \in Procs : AddTestUserSelect(p)
    \/ \E p \in Procs : CloseTestLookup(p)
    \/ \E p \in Procs : CloseTestUpdate(p)
    \/ \E p \in Procs : GetTestLookup(p)
    \/ \E p \in Procs : GetTestStamp(p)
    \/ \E p \in Procs : GetTestLoad(p)
    \/ \E p \in Procs : CompleteTestLookup(p)
    \/ \E p \in Procs : CompleteTestUpdate(p)
    \/ \E p \in Procs : SubmitRatingLookup(p)
    \/ \E p \in Procs : SubmitRatingCheck(p)
    \/ \E p \in Procs : SubmitRatingUpsert(p)
    \/ \E p \in Procs : DeleteTestLookup(p)
    \/ \E p \in Procs : DeleteTestDelete(p)
    \/ \E p \in Procs : DeleteTestUserStatus(p)
    \/ \E p \in Procs : DeleteTestUserSelect(p)
    \/ \E p \in Procs : DeleteTestUserDelete(p)
    \/ \E p \in Procs : GetTestResultsLoad(p)
    \/ \E p \in Procs : GetTestResultsAggregate(p)

\* The handlers never read the value of a timestamp (they test accessed_at and
\* completed_at for NULL only), so Spec lets all requests fall into one second
\* of the clock; SpecClock lets the clock advance between any two statements
\* of the handlers that read or write test_users.
Spec == Init /\ [][Next]_vars

NextClock ==
    \/ Tick
    \/ \E p \in Procs : AddTestUserCheck(p)
    \/ \E p \in Procs : AddTestUserInsert(p)
    \/ \E p \in Procs : AddTestUserSelect(p)
    \/ \E p \in Procs : CloseTestLookup(p)
    \/ \E p \in Procs : CloseTestUpdate(p)
    \/ \E p \in Procs : GetTestLookup(p)
    \/ \E p \in Procs : GetTestStamp(p)
    \/ \E p \in Procs : GetTestLoad(p)
    \/ \E p \in Procs : CompleteTestLookup(p)
    \/ \E p \in Procs : CompleteTestUpdate(p)
    \/ \E p \in Procs : DeleteTestLookup(p)
    \/ \E p \in Procs : DeleteTestDelete(p)
    \/ \E p \in Procs : DeleteTestUserStatus(p)
    \/ \E p \in Procs : DeleteTestUserSelect(p)
    \/ \E p \in Procs : DeleteTestUserDelete(p)

SpecClock == Init /\ [][NextClock]_vars

\* SpecStars draws the stars of submit_rating from StarsInputs, beside the
\* handlers that invite a participant and close a test.
NextStars ==
    \/ \E p \in Procs : AddTestUserCheck(p)
    \/ \E p \in Procs : AddTestUserInsert(p)
    \/ \E p \in Procs : AddTestUserSelect(p)
    \/ \E p \in Procs : CloseTestLookup(p)
    \/ \E p \in Procs : CloseTestUpdate(p)
    \/ \E p \in Procs : SubmitRatingLookup(p)
    \/ \E p \in Procs : SubmitRatingCheckOf(p, StarsInputs)
    \/ \E p \in Procs : SubmitRatingUpsert(p)

SpecStars == Init /\ [][NextStars]_vars

\* SpecUpload: the handlers that write categories, media_files and
\* media_file_categories.
NextUpload ==
    \/ \E p \in Procs : CreateCategory(p)
    \/ \E p \in Procs : DeleteCategoryLookup(p)
    \/ \E p \in Procs : DeleteCategoryDelete(p)
    \/ \E p \in Procs : UploadMediaFields(p)
    \/ \E p \in Procs : UploadMediaVerify(p)
    \/ \E p \in Procs : UploadMediaInsert(p)
    \/ \E p \in Procs : UploadMediaAssociate(p)

SpecUpload == Init /\ [][NextUpload]_vars

\* SpecBinding: the handlers that write tests, categories and test_categories,
\* create_test naming any category id.
NextBinding ==
    \/ \E p \in Procs : CreateTestInsertOf(p, CategoryIds)
    \/ \E p \in Procs : CreateTestLink(p)
    \/ \E p \in Procs : CreateTestSelect(p)
    \/ \E p \in Procs : CreateCategory(p)
    \/ \E p \in Procs : DeleteCategoryLookup(p)
    \/ \E p \in Procs : DeleteCategoryDelete(p)
    \/ \E p \in Procs : DeleteTestLookup(p)
    \/ \E p \in Procs : DeleteTestDelete(p)

SpecBinding == Init /\ [][NextBinding]_vars

\* SpecInvite: the handlers that insert and delete test_users rows, and the
\* invitation tasks.
NextInvite ==
    \/ \E p \in Procs : AddTestUserCheck(p)
    \/ \E p \in Procs : AddTestUserInsert(p)
    \/ \E p \in Procs : AddTestUserSelect(p)
    \/ EmailTaskEnds
    \/ \E p \in Procs : DeleteTestUserStatus(p)
    \/ \E p \in Procs : DeleteTestUserSelect(p)
    \/ \E p \in Procs : DeleteTestUserDelete(p)
    \/ \E p \in Procs : DeleteTestLookup(p)
    \/ \E p \in Procs : DeleteTestDelete(p)

SpecInvite == Init /\ [][NextInvite]_vars

\* SpecLogging: the activity log can fail under the handlers of the survey
\* sessions.
NextLogging ==
    \/ LogFault
    \/ \E p \in Procs : AddTestUserCheck(p)
    \/ \E p \in Procs : AddTestUserInsert(p)
    \/ \E p \in Procs : AddTestUserSelect(p)
    \/ \E p \in Procs : CloseTestLookup(p)
    \/ \E p \in Procs : CloseTestUpdate(p)
    \/ \E p \in Procs : GetTestLookup(p)
    \/ \E p \in Procs : GetTestStamp(p)
    \/ \E p \in Procs : GetTestLoad(p)
    \/ \E p \in Procs : CompleteTestLookup(p)
    \/ \E p \in Procs : CompleteTestUpdate(p)
    \/ \E p \in Procs : SubmitRatingLookup(p)
    \/ \E p \in Procs : SubmitRatingCheck(p)
    \/ \E p \in Procs : SubmitRatingUpsert(p)

SpecLogging == Init /\ [][NextLogging]_vars

\* SpecCategorize: create_category, upload_media and the handler that
\* recategorizes a media file.
NextCategorize ==
    \/ \E p \in Procs : CreateCategory(p)
    \/ \E p \in Procs : UploadMediaFields(p)
    \/ \E p \in Procs : UploadMediaVerify(p)
    \/ \E p \in Procs : UploadMediaInsert(p)
    \/ \E p \in Procs : UploadMediaAssociate(p)
    \/ \E p \in Procs : UpdateMediaCategoriesLookup(p)
    \/ \E p \in Procs : UpdateMediaCategoriesDelete(p)
    \/ \E p \in Procs : UpdateMediaCategoriesVerify(p)
    \/ \E p \in Procs : UpdateMediaCategoriesInsert(p)

SpecCategorize == Init /\ [][NextCategorize]_vars

\* SpecRating: participants rate while an admin recategorizes media files.
NextRating ==
    \/ \E p \in Procs : AddTestUserCheck(p)
    \/ \E p \in Procs : AddTestUserInsert(p)
    \/ \E p \in Procs : AddTestUserSelect(p)
    \/ \E p \in Procs : SubmitRatingLookup(p)
    \/ \E p \in Procs : SubmitRatingCheck(p)
    \/ \E p \in Procs : SubmitRatingUpsert(p)
    \/ \E p \in Procs : UpdateMediaCategoriesLookup(p)
    \/ \E p \in Procs : UpdateMediaCategoriesDelete(p)
    \/ \E p \in Procs : UpdateMediaCategoriesVerify(p)
    \/ \E p \in Procs : UpdateMediaCategoriesInsert(p)

SpecRating == Init /\ [][NextRating]_vars

\* SpecPage: list_activity_logs on an installation whose activity log holds
\* some number of close_test entries of one admin.
InitPage ==
    /\ InitStore
    /\ \E n \in LogSizes :
           activity_logs =
               IF n = 0 THEN EmptyBag
               ELSE (LogEntry("alice", "close_test", "test", 1, 0) :> n)

NextPage ==
    \/ \E p \in Procs : ListActivityLogsCount(p)
    \/ \E p \in Procs : ListActivityLogsSelect(p)

SpecPage == InitPage /\ [][NextPage]_vars
\* ================================================================ claims
\* the test a rating row belongs to, through its test user
OwnerOf(r) == {u \in test_users : u.id = r.test_user_id}

\* the rows a step writes into ratings (inserted, or updated to new values)
Written == ratings' \ ratings

\* C1: a rating row is created or updated only while its owning test has
\* status 'open': no step writes a row of ratings whose owning test is closed
\* (or gone) when the step is taken.
C1_RatingWrittenOnlyWhileOpen ==
    [][\A r \in Written :
           \E u \in OwnerOf(r) :
               u.test_id \in DOMAIN tests /\ tests[u.test_id].status = "open"]_vars

\* C2: once completed_at is set for a token, submit_rating with that token is
\* rejected and writes no rating row: no step writes a row of ratings whose
\* test user is completed, and no submit_rating that found the session
\* completed answers 200.
C2_NoRatingAfterCompletion ==
    [][/\ \A r \in Written : \A u \in OwnerOf(r) : u.completed_at = None
       /\ (last'.req.op = "submit_rating" /\ last'.req.g_completed)
              => last'.status # OK]_vars

UniquePerPair(rows) ==
    \A r1, r2 \in rows :
        (r1.test_user_id = r2.test_user_id /\ r1.media_file_id = r2.media_file_id)
            => r1 = r2

\* the upsert statement of slot p is about to run
Upserting(p) == pc[p] = "submit_rating_upsert"

\* C3 (upsert law): ratings holds at most one row per (test_user_id,
\* media_file_id); a row is written only by the upsert of a submit_rating and
\* carries that request's stars and comment; and after an accepted upsert the
\* pair's only row carries the stars and comment of that upsert, so the row
\* always shows the last upsert applied.
C3_UpsertLaw ==
    [][/\ UniquePerPair(ratings')
       /\ \A r \in Written :
              \E p \in Procs :
                  /\ Upserting(p) /\ pc'[p] = "idle"
                  /\ req[p].user_id = r.test_user_id
                  /\ req[p].media_file_id = r.media_file_id
                  /\ req[p].stars = r.stars /\ req[p].comment = r.comment
       /\ \A p \in Procs :
              (Upserting(p) /\ pc'[p] = "idle" /\ last'.status = OK)
                  => \E r \in ratings' :
                         /\ r.test_user_id = req[p].user_id
                         /\ r.media_file_id = req[p].media_file_id
                         /\ r.stars = req[p].stars /\ r.comment = req[p].comment]_vars

\* a row that was rated 3 stars and then 5 stars: both submissions are logged
\* for the same rating id and the row shows the later one
C3_Witness ==
    \E r \in ratings :
        /\ r.stars = 5000 /\ r.comment = Some("nice")
        /\ \E e1, e2 \in BagToSet(activity_logs) :
               /\ e1.action = "submit_rating" /\ e1.entity_id = r.id /\ e1.ref = 3000
               /\ e2.action = "submit_rating" /\ e2.entity_id = r.id /\ e2.ref = 5000
\* the access_test entries of activity_logs for test user id
AccessEntries(id) ==
    LET es == {e \in BagToSet(activity_logs) : e.action = "access_test" /\ e.ref = id}
    IN  BagCardinality([e \in es |-> activity_logs[e]])

AccessLogged ==
    /\ \A u \in test_users :
           AccessEntries(u.id) = IF u.accessed_at = None THEN 0 ELSE 1
    /\ \A id \in 1..(next_user_id - 1) : AccessEntries(id) <= 1

\* C4 (at most one access stamp): accessed_at of a test user, once set, is
\* never written again, and activity_logs holds exactly one access_test entry
\* for a test user whose accessed_at is set, none for one whose accessed_at
\* is NULL, whatever the number and the interleaving of the
\* get_test_by_token requests.
C4_AccessStampedOnce ==
    [][/\ \A u \in test_users : \A v \in test_users' :
              (v.id = u.id /\ u.accessed_at # None) => v.accessed_at = u.accessed_at
       /\ AccessLogged']_vars

\* two get_test_by_token requests on one token both looked the session up
\* before it was stamped; one has answered, the other is past the stamp
C4_Witness ==
    /\ last.req.op = "get_test_by_token" /\ last.status = OK
    /\ ~last.req.g_accessed
    /\ \E p \in Procs :
           /\ pc[p] = "get_test_load" /\ req[p].token = last.req.token
           /\ ~req[p].g_accessed
    /\ \E u \in test_users : u.id = last.req.user_id /\ u.accessed_at # None

\* the media files get_test_by_token lists for a test
Listed(test_id) ==
    {m \in DOMAIN media_files :
        \E mc \in media_file_categories, tc \in test_categories :
            mc[1] = m /\ mc[2] = tc[2] /\ tc[1] = test_id}

Elements(seq) == {seq[i] : i \in 1..Len(seq)}

\* C5 (get_test_by_token outcome by state): NotFound when the token is
\* unknown; otherwise Gone when completed_at is set, whatever the status of the
\* test; otherwise Forbidden when the test is closed (NotFound when it was
\* deleted meanwhile, the token being unknown by then); otherwise success with
\* the media files of the test, each once, by upload time.
C5_GetTestOutcome ==
    (last.req.op = "get_test_by_token" /\ last.status # 0) =>
        IF ~last.req.g_known THEN last.status = NOT_FOUND
        ELSE IF last.req.g_completed THEN last.status = GONE
        ELSE IF last.req.test_id \notin DOMAIN tests THEN last.status = NOT_FOUND
        ELSE IF tests[last.req.test_id].status = "closed" THEN last.status = FORBIDDEN
        ELSE /\ last.status = OK
             /\ Elements(last.media_files) = Listed(last.req.test_id)
             /\ Len(last.media_files) = Cardinality(Listed(last.req.test_id))
             /\ \A i, j \in 1..Len(last.media_files) :
                    i < j => media_files[last.media_files[i]].uploaded_at
                                 <= media_files[last.media_files[j]].uploaded_at

\* a completed session on a closed test is answered Gone, not Forbidden
C5_Witness ==
    /\ last.req.op = "get_test_by_token" /\ last.status = GONE
    /\ last.req.g_completed /\ last.req.g_closed

\* C6 (closed-test invariant): a submit_rating, delete_test_user or
\* get_test_by_token (of a participant that is not completed) whose first
\* statement runs when the test is closed answers Forbidden, as long as the
\* test exists.
C6_ClosedTestRefuses ==
    (/\ last.status # 0
     /\ last.req.g_closed
     /\ last.req.test_id \in DOMAIN tests
     /\ \/ last.req.op \in {"submit_rating", "delete_test_user"}
        \/ last.req.op = "get_test_by_token" /\ ~last.req.g_completed)
        => last.status = FORBIDDEN

\* a participant that never accessed the closed test is answered Forbidden
C6_Witness ==
    /\ last.req.op = "get_test_by_token" /\ last.status = FORBIDDEN
    /\ last.req.g_closed /\ ~last.req.g_accessed /\ ~last.req.g_completed

\* C7: at most one test_users row per (test_id, email).
C7_OneUserPerTestAndEmail ==
    \A u1, u2 \in test_users :
        (u1.test_id = u2.test_id /\ u1.email = u2.email) => u1 = u2

\* C8 (status is monotonic): a test enters the table 'open' and under an id
\* never used before; only the UPDATE of close_test changes a status; a
\* closed test stays closed.
C8_StatusMonotonic ==
    [][\A t \in DOMAIN tests' :
           IF t \notin DOMAIN tests
           THEN tests'[t].status = "open" /\ t >= next_test_id
           ELSE /\ tests[t].status = "closed" => tests'[t].status = "closed"
                /\ tests'[t].status # tests[t].status
                       => \E p \in Procs : /\ pc[p] = "close_test_update"
                                           /\ req[p].test_id = t]_vars

\* close_test succeeded on a test that was closed already; it is still closed
C8_Witness ==
    /\ last.req.op = "close_test" /\ last.status = OK /\ last.req.g_closed
    /\ tests[last.req.test_id].status = "closed"
\* the ratings of a media file given by the participants of a test
RatingsOfTest(test_id, media_file_id) ==
    {r \in ratings :
        /\ r.media_file_id = media_file_id
        /\ \E u \in test_users : u.id = r.test_user_id /\ u.test_id = test_id}

RECURSIVE TotalStars(_)
TotalStars(rows) ==
    IF rows = {} THEN 0
    ELSE LET r == CHOOSE r \in rows : TRUE
         IN  r.stars + TotalStars(rows \ {r})

\* the response of a successful get_test_results is in last
ResultsAnswered == last.req.op = "get_test_results" /\ last.status = OK

\* C9: get_test_results(T) is scoped to T: the count and the average of a
\* media file are those of the ratings by participants of T alone.
C9_ResultsScopedToTest ==
    ResultsAnswered =>
        \A i \in 1..Len(last.aggregated) :
            LET e == last.aggregated[i]
                own == RatingsOfTest(last.req.test_id, e.media_file_id)
            IN  /\ e.total_ratings = Cardinality(own)
                /\ e.average_stars.num * Cardinality(own)
                       = TotalStars(own) * e.average_stars.den

\* C10: get_test_results(T) has exactly one entry for every media file linked
\* to the category of T; an entry without ratings of T's participants has
\* average 0 and count 0, an entry with such ratings has their number as
\* total_ratings and their mean as average.
C10_ResultsPerMediaFile ==
    ResultsAnswered =>
        /\ {last.aggregated[i].media_file_id : i \in 1..Len(last.aggregated)}
               = Listed(last.req.test_id)
        /\ Len(last.aggregated) = Cardinality(Listed(last.req.test_id))
        /\ \A i \in 1..Len(last.aggregated) :
               LET e == last.aggregated[i]
                   own == RatingsOfTest(last.req.test_id, e.media_file_id)
               IN  IF own = {}
                   THEN e.average_stars.num = 0 /\ e.total_ratings = 0
                   ELSE /\ e.total_ratings = Cardinality(own)
                        /\ e.average_stars.num * Cardinality(own)
                               = TotalStars(own) * e.average_stars.den
\* a step of slot p that ends the handler whose last statement was at label
Ends(p, label) == pc[p] = label /\ pc'[p] = "idle"

\* C13: delete_test on an existing test succeeds if and only if the requester
\* is a super admin or the creator of the test; otherwise it answers Forbidden
\* and leaves the test, its participants and their ratings as they are.  A
\* test without creator is deleted by a super admin only.
C13_DeleteTestAuthorization ==
    [][/\ \A p \in Procs :
              /\ (pc[p] = "idle" /\ pc'[p] = "delete_test_delete") =>
                     LET c == req'[p].claims
                         test == tests[req'[p].test_id]
                     IN  c.is_super_admin \/ test.created_by = Some(c.sub)
              /\ (Ends(p, "delete_test_delete") /\ req[p].test_id \in DOMAIN tests) =>
                     /\ last'.status = NO_CONTENT
                     /\ req[p].test_id \notin DOMAIN tests'
       /\ (last'.req.op = "delete_test" /\ last'.status # 0 /\ pc' = pc
               /\ last'.req.test_id \in DOMAIN tests) =>
              LET c == last'.req.claims
                  test == tests[last'.req.test_id]
              IN  /\ ~(c.is_super_admin \/ test.created_by = Some(c.sub))
                  /\ last'.status = FORBIDDEN
                  /\ UNCHANGED <<tests, test_categories, test_users, ratings>>
       /\ \A t \in DOMAIN tests \ DOMAIN tests' :
              \E p \in Procs :
                  /\ Ends(p, "delete_test_delete") /\ req[p].test_id = t
                  /\ \/ req[p].claims.is_super_admin
                     \/ tests[t].created_by = Some(req[p].claims.sub)]_vars

\* the creator of no test is refused the test without creator, which has a
\* participant with a rating; test, participant and rating are still there
C13_Witness ==
    /\ last.req.op = "delete_test" /\ last.status = FORBIDDEN
    /\ ~last.req.claims.is_super_admin
    /\ last.req.test_id \in DOMAIN tests
    /\ tests[last.req.test_id].created_by = None
    /\ \E u \in test_users :
           /\ u.test_id = last.req.test_id
           /\ \E r \in ratings : r.test_user_id = u.id
\* every ratings row refers to a test user, every test_users row to a test
ReferentialIntegrity ==
    /\ \A r \in ratings : \E u \in test_users : u.id = r.test_user_id
    /\ \A u \in test_users : u.test_id \in DOMAIN tests

\* C14 (ownership cascade): a successful delete_test(T) leaves no
\* test_categories row, no test_users row and no ratings row of a participant
\* of T and leaves the rows of the other tests as they are; every ratings row
\* refers to an existing test_users row and every test_users row to an
\* existing test, in every state.
C14_OwnershipCascade ==
    [][/\ ReferentialIntegrity'
       /\ \A p \in Procs :
              (Ends(p, "delete_test_delete") /\ last'.status = NO_CONTENT) =>
                  LET T == req[p].test_id
                      gone == {u \in test_users : u.test_id = T}
                  IN  /\ DOMAIN tests' = DOMAIN tests \ {T}
                      /\ \A t \in DOMAIN tests' : tests'[t] = tests[t]
                      /\ test_categories' = {tc \in test_categories : tc[1] # T}
                      /\ test_users' = test_users \ gone
                      /\ ratings' = {r \in ratings :
                                         \A u \in gone : u.id # r.test_user_id}]_vars

\* delete_test succeeded on a test whose participant had submitted a rating:
\* test, links, participants and ratings are gone
C14_Witness ==
    /\ last.req.op = "delete_test" /\ last.status = NO_CONTENT
    /\ \E e \in BagToSet(activity_logs) :
           e.action = "add_test_user" /\ e.entity_id < next_user_id
    /\ \E e \in BagToSet(activity_logs) : e.action = "submit_rating"
    /\ last.req.test_id \notin DOMAIN tests
    /\ test_users = {} /\ ratings = {} /\ next_rating_id > 1
\* a stars value in [0, 5] within 0.01 of a multiple of 0.5, in thousandths
WithinTolerance(stars) ==
    /\ 0 <= stars /\ stars <= 5000
    /\ \E k \in 0..10 : Abs(stars - 500 * k) <= 10

\* C15: for a known token on an open test submit_rating accepts a stars value
\* if and only if it is in [0, 5] and within 0.01 of a multiple of 0.5; every
\* other value is answered BadRequest and writes no rating row.
C15_StarsAcceptedIffHalfSteps ==
    [][\A p \in Procs :
           (/\ pc[p] = "submit_rating_check" /\ pc'[p] # pc[p]
            /\ req[p].test_id \in DOMAIN tests
            /\ tests[req[p].test_id].status = "open") =>
               IF pc'[p] = "submit_rating_upsert"
               THEN WithinTolerance(req'[p].stars)
               ELSE /\ ~WithinTolerance(last'.req.stars)
                    /\ last'.status = BAD_REQUEST
                    /\ ratings' = ratings]_vars

\* C16: every stored rating has stars in [0, 5] that is an exact multiple
\* of 0.5.
C16_StoredStarsInHalfSteps ==
    \A r \in ratings : 0 <= r.stars /\ r.stars <= 5000 /\ r.stars % 500 = 0
\* C18: complete_test is idempotent: on a session that is completed already
\* it answers success again, and a completed_at that is set never becomes
\* NULL and never moves to an earlier time.
C18_CompleteTestIdempotent ==
    [][/\ \A u \in test_users : \A v \in test_users' :
              (v.id = u.id /\ u.completed_at # None) =>
                  /\ v.completed_at # None
                  /\ v.completed_at[1] >= u.completed_at[1]
       /\ \A p \in Procs :
              (/\ Ends(p, "complete_test_update")
               /\ \E u \in test_users :
                      u.one_time_token = req[p].token /\ u.completed_at # None) =>
                  /\ last'.status = NO_CONTENT
                  /\ \E v \in test_users' :
                         v.one_time_token = req[p].token /\ v.completed_at # None]_vars

\* complete_test was answered success on a session that it found completed
\* and logged a second time; completed_at is the time of the later call
C18_Witness ==
    /\ last.req.op = "complete_test" /\ last.status = NO_CONTENT
    /\ last.req.g_completed
    /\ \E u \in test_users :
           u.one_time_token = last.req.token /\ u.completed_at = Some(MaxClock)
    /\ \E e \in BagToSet(activity_logs) :
           e.action = "complete_test" /\ activity_logs[e] = 2

\* C19 (lifecycle order): a test user whose completed_at is set has
\* accessed_at set.
C19_CompletedImpliesAccessed ==
    \A u \in test_users : u.completed_at # None => u.accessed_at # None

\* C20: delete_test_user removes a test user only if the test user belongs to
\* the test named in the request and that test is open when the DELETE runs;
\* a request that names another test than the participant's is answered
\* NotFound and deletes nothing.
C20_DeleteTestUserOnlyWhileOpen ==
    [][\A p \in Procs :
           /\ Ends(p, "delete_test_user_delete") =>
                  \A u \in test_users \ test_users' :
                      /\ u.id = req[p].user_id /\ u.test_id = req[p].test_id
                      /\ u.test_id \in DOMAIN tests
                      /\ tests[u.test_id].status = "open"
           /\ (/\ Ends(p, "delete_test_user_select") \/ Ends(p, "delete_test_user_delete")
               /\ \E u \in test_users :
                      u.id = req[p].user_id /\ u.test_id # req[p].test_id) =>
                  /\ last'.status = NOT_FOUND
                  /\ test_users' = test_users /\ ratings' = ratings]_vars
\* the media type of a file part, read off its Content-Type
TypeOfPart(content_type) ==
    IF content_type.type \in {"audio", "video", "image", "text"}
    THEN content_type.type ELSE "other"

\* slot p takes a step
Steps(p) == pc'[p] # pc[p] \/ req'[p] # req[p]

\* C11 (upload type consistency): upload_media inserts a media_files row and
\* its links for a file part only if every category id supplied has existed
\* and has the media type of the file; a link is added only between a media
\* file and an existing category of its type; and a file part for which a
\* supplied id is unknown or of another type gets no row and no link, the
\* request being answered BadRequest.
C11_UploadTypeConsistency ==
    [][/\ \A m \in DOMAIN media_files' \ DOMAIN media_files :
              \E p \in Procs :
                  /\ pc[p] = "upload_media_insert" /\ Steps(p)
                  /\ media_files'[m].media_type = TypeOfPart(req[p].files[req[p].file])
                  /\ \A i \in 1..Len(req[p].category_ids) :
                         LET c == req[p].category_ids[i]
                         IN  /\ c < next_category_id
                             /\ c \in DOMAIN categories =>
                                    categories[c].media_type = media_files'[m].media_type
       /\ \A mc \in media_file_categories' \ media_file_categories :
              /\ mc[1] \in DOMAIN media_files /\ mc[2] \in DOMAIN categories
              /\ categories[mc[2]].media_type = media_files[mc[1]].media_type
       /\ \A p \in Procs :
              (/\ pc[p] = "upload_media_verify" /\ Steps(p)
               /\ LET c == req[p].category_ids[req[p].cat]
                  IN  \/ c \notin DOMAIN categories
                      \/ categories[c].media_type
                             # TypeOfPart(req[p].files[req[p].file])) =>
                  /\ pc'[p] = "idle" /\ last'.status = BAD_REQUEST
                  /\ UNCHANGED <<media_files, media_file_categories>>]_vars

\* an audio file sent with the ids of an audio and of an image category is
\* answered BadRequest and has left no row, although its first id matches
C11_Witness ==
    /\ last.req.op = "upload_media" /\ last.status = BAD_REQUEST
    /\ last.req.category_ids = <<1, 2>> /\ last.req.files = <<AudioMpeg>>
    /\ {1, 2} \subseteq DOMAIN categories
    /\ categories[1].media_type = "audio" /\ categories[2].media_type = "image"
    /\ last.req.uploaded_file_ids = << >>
    /\ next_media_id = 3
    /\ \A mc \in media_file_categories : mc[1] < next_media_id

\* every category id supplied exists and has the media type of the file part
PartPasses(content_type, category_ids) ==
    \A i \in 1..Len(category_ids) :
        /\ category_ids[i] \in DOMAIN categories
        /\ categories[category_ids[i]].media_type = TypeOfPart(content_type)

\* C12: in a multi-file upload a file part that fails the validation is
\* rejected alone: when a part is rejected, every other part of the request
\* that passes the validation, before or after the rejected one, is
\* persisted.
C12_RejectedFileAlone ==
    [][\A p \in Procs :
           (/\ pc[p] = "upload_media_verify" /\ pc'[p] = "idle"
            /\ last'.status = BAD_REQUEST) =>
               \A j \in 1..Len(req[p].files) :
                   (j # req[p].file /\ PartPasses(req[p].files[j], req[p].category_ids))
                       => j <= Len(req[p].uploaded_file_ids)]_vars
\* the categories a test is linked to
CategoriesOf(t) == {tc[2] : tc \in {x \in test_categories : x[1] = t}}

\* C17 (test/category binding): each test is linked to exactly one category
\* through test_categories, in every state in which no create_test is between
\* its INSERT INTO tests and its INSERT INTO test_categories.
C17_ExactlyOneCategoryPerTest ==
    (\A p \in Procs : pc[p] # "create_test_link") =>
        \A t \in DOMAIN tests : Cardinality(CategoriesOf(t)) = 1
C22_InvitationDecoupledFromEmail ==
    [][/\ \A p \in Procs :
              pc[p] = "add_test_user_select" /\ Steps(p) =>
                  /\ pc'[p] = "idle" /\ last'.status = OK
                  /\ last'.req.email = req[p].email
                  /\ last'.req.token = req[p].token
                  /\ [token |-> last'.req.token, user_id |-> last'.req.user_id]
                         \in minted
                  /\ test_users' = test_users
       /\ (\E task \in email_tasks : task \notin email_tasks') =>
              UNCHANGED <<db_tests, db_users, db_ratings, db_media, activity_logs,
                          pc, req, last>>]_vars

\* add_test_user has answered success, the participant is in the table, and
\* the invitation task of that participant has failed
C22_Witness ==
    /\ last.req.op = "add_test_user" /\ last.status = OK
    /\ \E u \in test_users :
           /\ u.id = last.req.user_id /\ u.one_time_token = last.req.token
           /\ u.email = last.req.email
    /\ \E task \in email_tasks :
           task.user_id = last.req.user_id /\ task.state = "failed"
\* the statement of slot p is about to take effect: the row it writes is there
Applies(p) ==
    CASE pc[p] = "close_test_update" -> req[p].test_id \in DOMAIN tests
      [] pc[p] = "complete_test_update" -> UserByToken(req[p].token) # {}
      [] pc[p] = "submit_rating_upsert" ->
             UserById(req[p].user_id) # {} /\ req[p].media_file_id \in DOMAIN media_files
      [] pc[p] = "add_test_user_select" -> TRUE
      [] pc[p] = "get_test_stamp" -> TRUE
      [] OTHER -> FALSE

\* the effect of the statement of slot p on its table, and its response
EffectAndResponse(p) ==
    CASE pc[p] = "close_test_update" ->
             /\ tests' = UpdateStatusClosed(tests, req[p].test_id)
             /\ last'.status = OK
      [] pc[p] = "complete_test_update" ->
             /\ test_users' = StampCompleted(test_users, req[p].token, now)
             /\ last'.status = NO_CONTENT
      [] pc[p] = "submit_rating_upsert" ->
             /\ ratings' = Upsert(ratings, next_rating_id, req[p].user_id,
                                  req[p].media_file_id, req[p].stars,
                                  req[p].comment, now)
             /\ last'.status = OK
      [] pc[p] = "add_test_user_select" ->
             /\ test_users' = test_users
             /\ last'.status = OK /\ last'.req.token = req[p].token
      [] pc[p] = "get_test_stamp" ->
             /\ test_users' = StampAccessed(test_users, req[p].user_id, now).rows
             /\ pc'[p] = "get_test_load"

\* C23: activity logging is best-effort: when the write of the log entry fails,
\* close_test, complete_test, submit_rating, add_test_user and
\* get_test_by_token have the effect on their table and give the response
\* that they have when the write succeeds; the log entry alone is missing.
C23_LoggingBestEffort ==
    [][\A p \in Procs :
           (Steps(p) /\ Applies(p)) =>
               /\ EffectAndResponse(p)
               /\ log_failing => activity_logs' = activity_logs]_vars

\* submit_rating has answered success and the rating is stored, and
\* activity_logs has no entry of it because the write failed
C23_Witness ==
    /\ log_failing
    /\ last.req.op = "submit_rating" /\ last.status = OK
    /\ \E r \in ratings :
           /\ r.test_user_id = last.req.user_id /\ r.stars = last.req.stars
           /\ \A e \in BagToSet(activity_logs) :
                  ~(e.action = "submit_rating" /\ e.entity_id = r.id)
\* C24: list_activity_logs returns at most 200 entries for every limit and
\* offset, and the limit it reports is the limit applied: the entries
\* returned are as many as the reported limit allows of those that remain
\* after the offset.
C24_PageAtMostTwoHundred ==
    (last.req.op = "list_activity_logs" /\ last.status = OK) =>
        /\ BagCardinality(last.logs) <= 200
        /\ LET rows == BagCardinality(activity_logs) - Max(last.offset, 0)
           IN  last.total = BagCardinality(activity_logs) =>
                   BagCardinality(last.logs) = Max(Min(last.limit, rows), 0)
\* C25: submit_rating checks in a fixed order and writes nothing on error: it
\* answers Unauthorized when the token is unknown; for a known token Forbidden
\* when the test is closed, whatever the stars; for a known token on an open
\* test BadRequest when the stars are not in [0, 5] within 0.01 of a multiple
\* of 0.5; and in each of these cases ratings is left as it is.
C25_SubmitRatingCheckOrder ==
    [][/\ (last'.req.op = "submit_rating" /\ last'.status # 0 /\ pc' = pc) =>
              /\ UserByToken(last'.req.token) = {}
              /\ last'.status = UNAUTHORIZED
              /\ ratings' = ratings
       /\ \A p \in Procs :
              /\ (pc[p] = "idle" /\ pc'[p] = "submit_rating_check") =>
                     UserByToken(req'[p].token) # {}
              /\ (pc[p] = "submit_rating_check" /\ Steps(p)
                      /\ req[p].test_id \in DOMAIN tests) =>
                     IF tests[req[p].test_id].status = "closed"
                     THEN /\ pc'[p] = "idle" /\ last'.status = FORBIDDEN
                          /\ ratings' = ratings
                     ELSE IF pc'[p] = "idle" /\ ~WithinTolerance(last'.req.stars)
                     THEN last'.status = BAD_REQUEST /\ ratings' = ratings
                     ELSE pc'[p] = "submit_rating_upsert" =>
                              WithinTolerance(req'[p].stars) /\ ratings' = ratings]_vars

\* a rating of 7 stars on a closed test is answered Forbidden, not BadRequest
C25_Witness ==
    /\ last.req.op = "submit_rating" /\ last.status = FORBIDDEN
    /\ last.req.g_known /\ last.req.stars = 7000
    /\ tests[last.req.test_id].status = "closed"
\* C26: every rating refers to a media file of the category of the test of its
\* test user: a row that a step writes into ratings is of a media file that
\* get_test_by_token lists for the participant's test when the step is taken.
C26_RatedMediaBelongsToTest ==
    [][\A r \in Written :
           \A u \in OwnerOf(r) : r.media_file_id \in MediaOfTest(u.test_id)]_vars

\* C27: every media_file_categories link joins a media file and a category of
\* the same media_type.
C27_LinksJoinSameMediaType ==
    \A mc \in media_file_categories :
        (mc[1] \in DOMAIN media_files /\ mc[2] \in DOMAIN categories) =>
            media_files[mc[1]].media_type = categories[mc[2]].media_type

\* the links the request at slot p has inserted so far
Inserted(p) ==
    {<<req[p].media_file_id, req[p].category_ids[i]>> : i \in 1..(req[p].cat - 1)}

\* C28: update_media_categories is all-or-nothing: when it answers BadRequest
\* because a requested category id does not exist, it has left the category
\* links of the media file as they were: the links it has deleted are the ones
\* it has inserted again.
C28_RecategorizeAllOrNothing ==
    [][\A p \in Procs :
           (/\ pc[p] = "update_media_categories_verify" /\ pc'[p] = "idle"
            /\ last'.status = BAD_REQUEST) =>
               /\ req[p].g_removed = Inserted(p)
               /\ media_file_categories' = media_file_categories]_vars

\* C29: create_test is all-or-nothing: when its INSERT INTO test_categories is
\* rejected because category_id names no category, the tests row that the
\* call inserted is not in the table when the call is answered.
C29_CreateTestAllOrNothing ==
    [][\A p \in Procs :
           (/\ pc[p] = "create_test_link" /\ pc'[p] = "idle"
            /\ req[p].category_id \notin DOMAIN categories) =>
               req[p].test_id \notin DOMAIN tests']_vars

\* C30: the sessions of a closed test are frozen: no step of get_test_by_token
\* or complete_test changes accessed_at or completed_at of a test user whose
\* test is closed, and a get_test_by_token that answers Forbidden has left
\* test_users and activity_logs as they were when it arrived.
C30_ClosedSessionsFrozen ==
    [][/\ \A u \in test_users :
              (u.test_id \in DOMAIN tests /\ tests[u.test_id].status = "closed") =>
                  \A v \in test_users' :
                      v.id = u.id => /\ v.accessed_at = u.accessed_at
                                     /\ v.completed_at = u.completed_at
       /\ \A p \in Procs :
              (/\ pc[p] = "get_test_stamp" /\ pc'[p] = "get_test_load"
               /\ req[p].g_closed) =>
                  /\ test_users' = test_users
                  /\ activity_logs' = activity_logs]_vars
====
